---- MODULE Spec2Model ----
(***************************************************************************)
(* A model of temp-mongo: the lifecycle of a temporary MongoDB instance    *)
(* (src/src/temp_mongo.rs) built on TempDir (src/src/util/temp_dir.rs),    *)
(* KillOnDrop (src/src/util/kill_on_drop.rs) and PortGenerator             *)
(* (src/src/util/port_finder.rs).                                          *)
(*                                                                         *)
(* The operating system is the environment.  Every call that returns an    *)
(* io::Result (mkdtemp, mkdir, bind, spawn, kill, wait, remove_dir_all)    *)
(* and every driver call (Client::with_options, list_databases) has its    *)
(* outcome chosen by the environment; the model follows the code on both   *)
(* outcomes.  Two facts about the environment are assumed:                 *)
(*   - remove_dir_all that returns Ok has removed the directory, and one   *)
(*     that returns Err has left the directory in place;                   *)
(*   - Child::wait returns only once the child is no longer running: Ok    *)
(*     has reaped it, Err (ECHILD; EINTR is retried by std) means there is *)
(*     no such unwaited-for child left.  A wait on a child that never      *)
(*     exits does not return, and such a call is not a completed call.     *)
(* The build modelled is the one for unix (cfg(unix), temp_mongo.rs        *)
(* 198-203 and 235-247): the server is told to listen on the socket        *)
(* <tempdir>/mongod.sock and the client connects to that path.  The port   *)
(* is allocated and passed as --port all the same (205-212, 224-225), but  *)
(* no process of the model listens on it, so the system may assign a port  *)
(* again while an instance that was given it is live.                      *)
(* Of the server it is assumed that it keeps its databases under its       *)
(* --dbpath and lists those; SpecData adds what callers write through the  *)
(* client of a live instance to the lifecycle of Spec.                     *)
(* A launch is two steps, split at the await of the readiness probe, with  *)
(* the start of the server in between.  A disposal (kill_and_clean,        *)
(* kill_no_clean, a drop) owns the instance and shares nothing with other  *)
(* threads, so it is one step; the order of the calls it makes is kept in  *)
(* the instance's hist.                                                    *)
(* SpecSeed is the seeding of a collection through a live instance         *)
(* (DataSeeder, src/src/util/seed_data_structures.rs): it starts after a   *)
(* launch that went through and takes one step for each insert_one         *)
(* awaited.  Of the driver and the server it is assumed that insert_one    *)
(* gives a document without _id a fresh one and that find returns the      *)
(* documents of a collection in the order of their insertion.              *)
(***************************************************************************)
EXTENDS Integers, Sequences, FiniteSets, TLC

\* Bounds of the model.
NumInst == 2
NumPorts == 2
\* The longest list of documents a seeder is prepared with.
MaxDocs == 3

Inst == 1..NumInst
\* Names tempfile::tempdir can give a directory: one per launch suffices.
DirNames == 1..NumInst
Ports == 1..NumPorts

NoPath == 0
NoPort == 0

\* The files of <tempdir>/ the code and the server create.
FileNames == {"db", "mongod.log", "mongod.sock"}

\* Option<OsString> of the builder: None, or an override of the command.
NoCommand == "None"
Overrides == {"no-such-mongod"}
\* Commands the calling environment can resolve to an executable.
Runnable == {"mongod"}

VARIABLES fs, inst, seeding

vars == <<fs, inst, seeding>>

Absent == [exists |-> FALSE, files |-> {}]

NoResult == [kind |-> "none", arg |-> <<>>]
OkResult == [kind |-> "Ok", arg |-> <<>>]
Err(kind, arg) == [kind |-> kind, arg |-> arg]

\* TempMongoBuilder::new
TempMongoBuilder_new == [clean_on_drop |-> TRUE, command |-> NoCommand]

\* TempMongoBuilder::clean_on_drop
TempMongoBuilder_clean_on_drop(b, c) == [b EXCEPT !.clean_on_drop = c]

\* TempMongoBuilder::mongod_command
TempMongoBuilder_mongod_command(b, c) == [b EXCEPT !.command = c]

\* The builders a caller can make: new(), then any of the setters.
Builders ==
  LET b0 == {TempMongoBuilder_new}
      b1 == b0 \cup {TempMongoBuilder_clean_on_drop(b, c) : b \in b0, c \in BOOLEAN}
  IN  b1 \cup {TempMongoBuilder_mongod_command(b, c) : b \in b1, c \in Overrides}

\* A slip: the override of the command is not looked at.
get_command_default(b) == "mongod"

\* TempMongoBuilder::get_command / get_command_string
get_command(b) == IF b.command = NoCommand THEN "mongod" ELSE b.command

\* No builder is borrowed: the launch has not begun, or it has returned.
NoBuilder == [clean_on_drop |-> FALSE, command |-> "-"]

\* An instance that has not been launched.  Besides the program's state
\* (pc, path, tempdir, clean_on_drop, port, proc, started, client, cfg) an
\* instance records what its calls returned (launch, op, dispose), the mode
\* its caller asked for (mode: the clean_on_drop of the builder it was
\* launched from, then the argument of the last set_clean_on_drop), what
\* was on disk at its path when its last call returned (left), and the
\* order of the system and driver calls made for it (hist), and what a
\* kill of its server returned when the server had been killed before
\* (rekill).
Idle ==
  [ pc |-> "idle", path |-> NoPath, tempdir |-> "none", clean_on_drop |-> FALSE,
    port |-> NoPort, proc |-> "none", started |-> FALSE, client |-> "none",
    cfg |-> NoBuilder, mode |-> FALSE, launch |-> NoResult, op |-> "none",
    dispose |-> NoResult, left |-> Absent, hist |-> <<>>, rekill |-> "none" ]

\* A world is the filesystem and the instance the running code owns.
World(i) == [fs |-> fs, me |-> inst[i]]

Log(w, e) == [w EXCEPT !.me.hist = Append(@, e)]

\* What is on disk at the instance's path.
OnDisk(w) == IF w.me.path = NoPath THEN Absent ELSE w.fs[w.me.path]

Finish(i, w) ==
  /\ fs' = w.fs
  /\ inst' = [inst EXCEPT ![i] = w.me]
  /\ seeding' = seeding

(***************************************************************************)
(* TempDir (util/temp_dir.rs) around tempfile::TempDir.                     *)
(***************************************************************************)

\* A slip: the removal is run on the parent of the temporary directories
\* and takes every instance's directory with it.
remove_dir_all_parent(w, ok) ==
  IF ok THEN Log([w EXCEPT !.fs = [d \in DOMAIN w.fs |-> Absent]], "rmdir_ok")
        ELSE Log(w, "rmdir_err")

\* std::fs::remove_dir_all of the instance's directory, as tempfile::TempDir
\* runs it from close() and from its own Drop; ok is the outcome.
remove_dir_all(w, ok) ==
  IF ok THEN Log([w EXCEPT !.fs[w.me.path] = Absent], "rmdir_ok")
        ELSE Log(w, "rmdir_err")

\* A slip: a fixed directory is used, and what it holds is kept.
TempDir_new_adopt(w, d, clean) ==
  Log([w EXCEPT !.fs[1].exists = TRUE,
                !.me.path = 1,
                !.me.tempdir = "owned",
                !.me.clean_on_drop = clean], "mktemp")

\* A slip: the directory is made under one fixed name, not a unique one.
TempDir_new_fixed(w, d, clean) ==
  Log([w EXCEPT !.fs[1] = [exists |-> TRUE, files |-> {}],
                !.me.path = 1,
                !.me.tempdir = "owned",
                !.me.clean_on_drop = clean], "mktemp")

\* TempDir::new / new_in: tempfile::tempdir() creates a directory under a
\* name d that did not exist.
TempDir_new(w, d, clean) ==
  Log([w EXCEPT !.fs[d] = [exists |-> TRUE, files |-> {}],
                !.me.path = d,
                !.me.tempdir = "owned",
                !.me.clean_on_drop = clean], "mktemp")

\* TempDir::set_clean_on_drop
TempDir_set_clean_on_drop(w, clean) == [w EXCEPT !.me.clean_on_drop = clean]

\* A slip: the wrapper is not forgotten (no mem::forget), so Drop for
\* TempDir still runs for it.
TempDir_into_inner_noforget(w) == w

\* TempDir::into_inner: the wrapped directory is taken out and the wrapper is
\* forgotten, so Drop for TempDir does not run for it.
TempDir_into_inner(w) == [w EXCEPT !.me.tempdir = "taken"]

\* TempDir::into_path: tempfile::TempDir::into_path persists the directory.
TempDir_into_path(w) == Log(TempDir_into_inner(w), "persist")

\* A slip: close persists the directory instead of removing it.
TempDir_close_keep(w, ok) == TempDir_into_path(w)

\* TempDir::close: tempfile::TempDir::close removes the directory and
\* returns the outcome of the removal.
TempDir_close(w, ok) == remove_dir_all(TempDir_into_inner(w), ok)

\* A slip: Drop for TempDir never drops the wrapped directory.
TempDir_drop_leak(w, ok) == [w EXCEPT !.me.tempdir = "dropped"]

\* A slip: the outcome of the removal is unwrapped, and a failed removal
\* panics in the middle of the drop.
TempDir_drop_unwrap(w, ok) ==
  IF w.me.clean_on_drop /\ ~ok
  THEN [Log(w, "rmdir_err") EXCEPT !.me.tempdir = "panicked"]
  ELSE LET d == [w EXCEPT !.me.tempdir = "dropped"]
       IN  IF w.me.clean_on_drop THEN remove_dir_all(d, ok) ELSE d

\* Drop for TempDir: the wrapped directory is dropped (removed, the outcome
\* ignored) only when clean_on_drop is set; otherwise it is leaked.
TempDir_drop(w, ok) ==
  LET d == [w EXCEPT !.me.tempdir = "dropped"]
  IN  IF w.me.clean_on_drop THEN remove_dir_all(d, ok) ELSE d

(***************************************************************************)
(* KillOnDrop (util/kill_on_drop.rs) around std::process::Child.           *)
(***************************************************************************)

\* Child::kill sends the kill signal and does not wait: on success the
\* process is killed (dying, or dead and not yet reaped) and serves no more.
Child_kill(w, ok) ==
  IF ok THEN [w EXCEPT !.me.proc = "killed", !.me.started = FALSE] ELSE w

\* Child::wait returns once the process has ended: reaped by this wait
\* (Ok), or gone without it (Err).  Either way it is neither running nor a
\* zombie, and the outcome is all that tells the two apart.
Child_wait(w, ok) == [w EXCEPT !.me.proc = "ended", !.me.started = FALSE]

\* KillOnDrop::kill: the outcome of Child::kill goes to the caller.
KillOnDrop_kill(w, ok) ==
  Log(Child_kill(w, ok), IF ok THEN "kill_ok" ELSE "kill_err")

\* A slip: Drop for KillOnDrop kills and does not wait.
KillOnDrop_drop_nowait(w, k, wt) == Log(Child_kill(w, k), "drop_kill")

\* A slip: the outcome of the kill is unwrapped, and a failed kill panics
\* before the wait.
KillOnDrop_drop_unwrap(w, k, wt) ==
  IF k THEN Log(Child_wait(Log(Child_kill(w, k), "drop_kill"), wt), "drop_wait")
       ELSE Log(w, "drop_kill")

\* Drop for KillOnDrop: self.child.kill().ok(); self.child.wait().ok();
\* Child::kill is called on the child itself and both outcomes are
\* discarded.
KillOnDrop_drop(w, k, wt) ==
  LET w1 == IF w.me.proc = "killed"
            THEN [w EXCEPT !.me.rekill = IF k THEN "ok" ELSE "err"] ELSE w
  IN  Log(Child_wait(Log(Child_kill(w1, k), "drop_kill"), wt), "drop_wait")

(***************************************************************************)
(* mongodb::Client, as far as the lifecycle uses it.                       *)
(***************************************************************************)

\* client.shutdown_immediate().await
Client_shutdown_immediate(w) ==
  Log([w EXCEPT !.me.client = "shutdown"], "client_shutdown")

\* The client handle going out of scope.
Client_drop(w) == Log([w EXCEPT !.me.client = "dropped"], "client_drop")

\* Databases a caller writes to through the client.
UserDbs == {"test"}

\* The server keeps the files of database n under its --dbpath,
\* <tempdir>/db.
DataFile(n) == "db/" \o n

\* collection.insert_one through TempMongo::client(): the client is
\* connected to the server of its own instance, which on success has
\* database n on disk.  The first insert is kept in hist.
insert_one(w, n, ok) ==
  IF ~ok THEN w
  ELSE LET w1 == [w EXCEPT !.fs[w.me.path].files = @ \cup {DataFile(n)}]
       IN  IF \E k \in DOMAIN w.me.hist : w.me.hist[k] = "insert"
           THEN w1 ELSE Log(w1, "insert")

\* client.list_database_names: the databases the server of the instance
\* finds under its --dbpath (admin, config and local left aside).
list_database_names(w) == {n \in UserDbs : DataFile(n) \in OnDisk(w).files}

(***************************************************************************)
(* DataSeeder (util/seed_data_structures.rs) and the collections it seeds. *)
(***************************************************************************)

\* The documents of a seeding, and the collections they can go to.
Documents == {"Alice", "Bob"}
SeedDbs == {"test_3"}
SeedColls == {"trex", "rex"}
Namespaces == SeedDbs \X SeedColls

\* The lists of documents a caller can pass, up to MaxDocs long.
DocLists == UNION {[1..n -> Documents] : n \in 0..MaxDocs}

\* DataSeeder::new
DataSeeder_new == [database_name |-> "", collection_name |-> "", documents |-> <<>>]

\* DataSeeder::new_in (and new_in_with_string): self is not read.
DataSeeder_new_in(self, database_name, collection_name, documents) ==
  [database_name |-> database_name, collection_name |-> collection_name,
   documents |-> documents]

\* TempMongo::prepare_seed_document; self.seed is the DataSeeder::new() of
\* from_builder (line 186).
prepare_seed_document(database_name, collection_name, documents) ==
  DataSeeder_new_in(DataSeeder_new, database_name, collection_name, documents)

\* The _id the driver generates for a document that has none: an ObjectId
\* no stored document has.
ObjectId(store) ==
  1 + Len(store[<<"test_3", "trex">>]) + Len(store[<<"test_3", "rex">>])

\* Collection::insert_one on the collection ns: on success the server has
\* stored the document with a generated _id, after those it had.
Collection_insert_one(store, ns, document, ok) ==
  IF ok THEN [store EXCEPT ![ns] = Append(@, [doc |-> document, id |-> ObjectId(store)])]
        ELSE store

\* Collection::find(None, None) and the traversal of the cursor: the
\* stored documents in their natural order, that of insertion.
Collection_find(store, ns) == store[ns]

\* Document::remove("_id") on each of the fetched documents.
remove_id(fetched) == [k \in DOMAIN fetched |-> fetched[k].doc]

\* No seeder is prepared: every collection is empty.  by is the instance
\* that seeds, given what the caller passed to prepare_seed_document, next
\* the position of seed_document in the list, failed_at the position of
\* the insert that failed.
NoSeeding ==
  [ pc |-> "none", by |-> 0, given |-> <<>>, seeder |-> DataSeeder_new,
    next |-> 1, failed_at |-> 0, result |-> NoResult,
    store |-> [ns \in Namespaces |-> <<>>] ]

\* A slip: a failed insert is passed over (.ok() for ?) and the seeding
\* goes on with the next document.
seed_document_insert_skip(s, ok) ==
  LET ns == <<s.seeder.database_name, s.seeder.collection_name>>
  IN  [s EXCEPT !.pc = "loading",
                !.store = Collection_insert_one(@, ns, s.seeder.documents[s.next], ok),
                !.next = @ + 1]

\* DataSeeder::seed_document, one turn of the loop (lines 81-83):
\* insert_one(document.clone(), None).await?, where ok is the outcome of
\* the insert.  A failure returns the error at once.
seed_document_insert(s, ok) ==
  LET ns == <<s.seeder.database_name, s.seeder.collection_name>>
      document == s.seeder.documents[s.next]
  IN  IF ok
      THEN [s EXCEPT !.pc = "loading",
                     !.store = Collection_insert_one(@, ns, document, ok),
                     !.next = @ + 1]
      ELSE [s EXCEPT !.pc = "returned", !.failed_at = s.next,
                     !.result = Err("mongodb", <<>>)]

\* DataSeeder::seed_document, the loop is through (line 84): Ok(()).
seed_document_return(s) == [s EXCEPT !.pc = "returned", !.result = OkResult]

(***************************************************************************)
(* PortGenerator (util/port_finder.rs).                                    *)
(***************************************************************************)

\* PortGenerator::new: no port is selected.
PortGenerator_new == NoPort

\* PortGenerator::generate: TcpListener::bind(("127.0.0.1", 0)) and
\* local_addr(); on success the port p the system assigned is selected, on
\* failure the selection is left as it was.  The listener is a local of the
\* `if let` and is closed before generate returns.
PortGenerator_generate(selected, ok, p) == IF ok THEN p ELSE selected

(***************************************************************************)
(* TempMongo::from_builder (temp_mongo.rs), in three stretches.  A `?`     *)
(* that returns early drops the locals declared so far in reverse order    *)
(* of declaration: client, then server, then tempdir.                      *)
(***************************************************************************)

\* A slip: the builder's clean_on_drop is not passed on.
make_temp_dir_default(w, b, d) == TempDir_new(w, d, TRUE)

\* TempMongoBuilder::make_temp_dir (parent_directory is never set).
make_temp_dir(w, b, d) == TempDir_new(w, d, b.clean_on_drop)

\* server_address / socket_path of the unix build: <tempdir>/mongod.sock.
socket_path(me) == <<me.path, "mongod.sock">>

\* from_builder returns Err(e); its locals, the port among them, are gone.
LaunchErr(w, e) ==
  [w EXCEPT !.me.pc = "failed", !.me.launch = e, !.me.cfg = NoBuilder,
            !.me.port = NoPort, !.me.left = OnDisk(w)]

\* from_builder returns Ok(Self { .. }): the borrow of the builder ends.
\* The port lives on as the --port argument of the server process.
LaunchOk(w) ==
  [w EXCEPT !.me.pc = "live", !.me.launch = OkResult, !.me.cfg = NoBuilder]

\* A slip: no port is allocated where the endpoint is a socket path.
from_builder_alloc_noport(w, b, mk, d, db, bind, p, rm) ==
  IF ~mk THEN LaunchErr(Log(w, "mktemp_err"), Err("MakeTempDir", <<>>))
  ELSE
    LET w1 == make_temp_dir([w EXCEPT !.me.cfg = b,
                                      !.me.mode = b.clean_on_drop], b, d)
    IN  IF ~db
        THEN LaunchErr(TempDir_drop(Log(w1, "mkdb_err"), rm),
                       Err("MakeDbDir", <<d, "db">>))
        ELSE Log([w1 EXCEPT !.fs[d].files = @ \cup {"db"}, !.me.pc = "ported"],
                 "mkdb")

\* A slip: when no port was selected the launch goes on with a default
\* port (unwrap_or) and returns no Port error.
from_builder_alloc_default_port(w, b, mk, d, db, bind, p, rm) ==
  IF ~mk THEN LaunchErr(Log(w, "mktemp_err"), Err("MakeTempDir", <<>>))
  ELSE
    LET w1 == make_temp_dir([w EXCEPT !.me.cfg = b,
                                      !.me.mode = b.clean_on_drop], b, d)
    IN  IF ~db
        THEN LaunchErr(TempDir_drop(Log(w1, "mkdb_err"), rm),
                       Err("MakeDbDir", <<d, "db">>))
        ELSE
          LET w2 == Log([w1 EXCEPT !.fs[d].files = @ \cup {"db"}], "mkdb")
              port == PortGenerator_generate(PortGenerator_new, bind, p)
          IN  IF port = NoPort
              THEN Log([w2 EXCEPT !.me.port = 1, !.me.pc = "ported"], "port_err")
              ELSE Log([w2 EXCEPT !.me.port = port, !.me.pc = "ported"], "port")

\* Lines 183-212: the temporary directory, the db directory and the port.
\* mk, db, bind are the outcomes of tempfile::tempdir, create_dir and the
\* listener's bind (with local_addr); d and p are the name and the port the system picks; rm
\* is the outcome of the removal a rollback runs.
from_builder_alloc(w, b, mk, d, db, bind, p, rm) ==
  IF ~mk THEN LaunchErr(Log(w, "mktemp_err"), Err("MakeTempDir", <<>>))
  ELSE
    LET w1 == make_temp_dir([w EXCEPT !.me.cfg = b,
                                      !.me.mode = b.clean_on_drop], b, d)
    IN  IF ~db
        THEN LaunchErr(TempDir_drop(Log(w1, "mkdb_err"), rm),
                       Err("MakeDbDir", <<d, "db">>))
        ELSE
          LET w2 == Log([w1 EXCEPT !.fs[d].files = @ \cup {"db"}], "mkdb")
              port == PortGenerator_generate(PortGenerator_new, bind, p)
          IN  IF port = NoPort
              THEN LaunchErr(TempDir_drop(Log(w2, "port_err"), rm),
                             Err("Port", <<>>))
              ELSE Log([w2 EXCEPT !.me.port = port, !.me.pc = "ported"], "port")

\* A slip: Ok is returned once the client is constructed, without a probe.
from_builder_spawn_noprobe(w, sp, cl, k, wt, rm) ==
  IF ~sp
  THEN LaunchErr(TempDir_drop(Log(w, "spawn_err"), rm),
                 Err("SpawnServer", <<get_command(w.me.cfg)>>))
  ELSE LaunchOk(Log(Log([w EXCEPT !.me.proc = "running", !.me.client = "open"],
                        "spawn"), "client_new"))

\* Lines 216-264: spawn the server, wrap it in KillOnDrop, construct the
\* client.  sp and cl are the outcomes of Command::spawn and
\* Client::with_options; k, wt, rm those of the rollback's kill, wait and
\* removal.
from_builder_spawn(w, sp, cl, k, wt, rm) ==
  IF ~sp
  THEN LaunchErr(TempDir_drop(Log(w, "spawn_err"), rm),
                 Err("SpawnServer", <<get_command(w.me.cfg)>>))
  ELSE
    LET w1 == Log([w EXCEPT !.me.proc = "running"], "spawn")
    IN  IF ~cl
        THEN LaunchErr(
               TempDir_drop(KillOnDrop_drop(Log(w1, "client_err"), k, wt), rm),
               Err("Connect", <<w.me.path, "mongod.sock">>))
        ELSE Log([w1 EXCEPT !.me.client = "open", !.me.pc = "spawned"],
                 "client_new")

\* A slip: a failed probe returns without dropping the server.
from_builder_probe_leak(w, ok, k, wt, rm) ==
  IF ~ok
  THEN LaunchErr(TempDir_drop(Client_drop(Log(w, "probe_err")), rm),
                 Err("Connect", <<w.me.path, "mongod.sock">>))
  ELSE LaunchOk(Log(w, "probe_ok"))

\* A slip: a failed probe is tried a second time, which succeeds if the
\* server has started by then.
from_builder_probe_retry(w, ok, k, wt, rm) ==
  IF ok THEN LaunchOk(Log(w, "probe_ok"))
  ELSE IF w.me.started THEN LaunchOk(Log(Log(w, "probe_err"), "probe_ok"))
  ELSE LaunchErr(
         TempDir_drop(
           KillOnDrop_drop(Client_drop(Log(Log(w, "probe_err"), "probe_err")),
                           k, wt), rm),
         Err("Connect", <<w.me.path, "mongod.sock">>))

\* A slip: the rollback drops the locals in the order of their creation,
\* the directory before the server.
from_builder_probe_creation_order(w, ok, k, wt, rm) ==
  IF ~ok
  THEN LaunchErr(
         Client_drop(
           KillOnDrop_drop(TempDir_drop(Log(w, "probe_err"), rm), k, wt)),
         Err("Connect", <<w.me.path, "mongod.sock">>))
  ELSE LaunchOk(Log(w, "probe_ok"))

\* Lines 266-279: the readiness probe, client.list_databases(None, None).
from_builder_probe(w, ok, k, wt, rm) ==
  IF ~ok
  THEN LaunchErr(
         TempDir_drop(
           KillOnDrop_drop(Client_drop(Log(w, "probe_err")), k, wt), rm),
         Err("Connect", <<w.me.path, "mongod.sock">>))
  ELSE LaunchOk(Log(w, "probe_ok"))

(***************************************************************************)
(* TempMongo's disposal (temp_mongo.rs).                                   *)
(***************************************************************************)

\* A slip: the disposal borrows the instance instead of consuming it, and
\* the caller keeps a live TempMongo.
Disposed_borrowed(w, op, r) ==
  [w EXCEPT !.me.op = op, !.me.dispose = r,
            !.me.port = NoPort, !.me.left = OnDisk(w)]

\* A disposal of the instance by op is complete, with result r; the server
\* process and its arguments are gone.
Disposed(w, op, r) ==
  [w EXCEPT !.me.pc = "disposed", !.me.op = op, !.me.dispose = r,
            !.me.port = NoPort, !.me.left = OnDisk(w)]

\* A slip: the server is forgotten (mem::forget), so its Drop never runs.
TempMongo_drop_forget(w, rm, k, wt) ==
  LET w1 == IF w.me.tempdir = "owned" THEN TempDir_drop(w, rm) ELSE w
  IN  Client_drop(w1)

\* struct TempMongo going out of scope: it has no Drop of its own, so its
\* fields are dropped in declaration order, tempdir (unless it was moved
\* out by close or into_path), then client, then server.
TempMongo_drop(w, rm, k, wt) ==
  LET w1 == IF w.me.tempdir = "owned" THEN TempDir_drop(w, rm) ELSE w
  IN  KillOnDrop_drop(Client_drop(w1), k, wt)

\* A slip: set_clean_on_drop(false) persists the directory at once.
set_clean_on_drop_persist(w, clean) ==
  IF clean THEN [TempDir_set_clean_on_drop(w, clean) EXCEPT !.me.mode = clean]
  ELSE [TempDir_into_path(w) EXCEPT !.me.mode = clean]

\* TempMongo::set_clean_on_drop
set_clean_on_drop(w, clean) ==
  [TempDir_set_clean_on_drop(w, clean) EXCEPT !.me.mode = clean]

\* A slip: the outcome of server.kill() is discarded.
kill_and_clean_swallow(w, k1, rm, k2, wt) ==
  LET w3 == TempDir_close(KillOnDrop_kill(Client_shutdown_immediate(w), k1), rm)
  IN  Disposed(TempMongo_drop(w3, rm, k2, wt), "kill_and_clean",
               IF rm THEN OkResult ELSE Err("CleanDir", <<w.me.path>>))

\* TempMongo::kill_and_clean.  k1 is the outcome of server.kill(), rm of
\* the one removal of the directory the call runs, k2 and wt of the kill
\* and wait Drop for KillOnDrop runs when self goes out of scope.
kill_and_clean(w, k1, rm, k2, wt) ==
  LET w1 == Client_shutdown_immediate(w)
      w2 == KillOnDrop_kill(w1, k1)
  IN  IF ~k1
      THEN Disposed(TempMongo_drop(w2, rm, k2, wt), "kill_and_clean",
                    Err("KillServer", <<>>))
      ELSE
        LET w3 == TempDir_close(w2, rm)
            w4 == TempMongo_drop(w3, rm, k2, wt)
        IN  Disposed(w4, "kill_and_clean",
                     IF rm THEN OkResult ELSE Err("CleanDir", <<w.me.path>>))

\* A slip: the directory is persisted only after the kill has succeeded.
kill_no_clean_late(w, k1, rm, k2, wt) ==
  LET w2 == KillOnDrop_kill(Client_shutdown_immediate(w), k1)
  IN  IF ~k1
      THEN Disposed(TempMongo_drop(w2, rm, k2, wt), "kill_no_clean",
                    Err("KillServer", <<>>))
      ELSE Disposed(TempMongo_drop(TempDir_into_path(w2), rm, k2, wt),
                    "kill_no_clean", OkResult)

\* A slip: the directory is not persisted before self goes out of scope.
kill_no_clean_nopersist(w, k1, rm, k2, wt) ==
  LET w3 == KillOnDrop_kill(Client_shutdown_immediate(w), k1)
  IN  Disposed(TempMongo_drop(w3, rm, k2, wt), "kill_no_clean",
               IF k1 THEN OkResult ELSE Err("KillServer", <<>>))

\* TempMongo::kill_no_clean
kill_no_clean(w, k1, rm, k2, wt) ==
  LET w1 == TempDir_into_path(w)
      w2 == Client_shutdown_immediate(w1)
      w3 == KillOnDrop_kill(w2, k1)
  IN  Disposed(TempMongo_drop(w3, rm, k2, wt), "kill_no_clean",
               IF k1 THEN OkResult ELSE Err("KillServer", <<>>))

\* A live TempMongo is dropped without kill_and_clean or kill_no_clean.
implicit_drop(w, rm, k, wt) ==
  Disposed(TempMongo_drop(w, rm, k, wt), "drop", NoResult)

Init ==
  /\ fs = [d \in DirNames |-> Absent]
  /\ inst = [i \in Inst |-> Idle]
  /\ seeding = NoSeeding


(***************************************************************************)
(* Actions.                                                                *)
(***************************************************************************)

\* Outcomes the code does not come to read on the path taken (when skipped
\* holds) are fixed, so that one behaviour of the code is one transition.
Unread(skipped, outcomes) == skipped => \A o \in outcomes : o

\* The least name no directory has: the names are interchangeable, and
\* tempfile::tempdir creates a directory under a name that did not exist.
FreshName == CHOOSE d \in DirNames :
               /\ ~fs[d].exists
               /\ \A e \in DirNames : ~fs[e].exists => d <= e

\* The ports instances were given and have not let go of.
HeldPorts == {inst[j].port : j \in Inst} \ {NoPort}

\* The ports bind(("127.0.0.1", 0)) can assign.  No listener is open
\* between two calls, so every port can come, also one an instance was
\* given; ports are interchangeable, and the least of those no instance
\* was given stands for all of them.
AssignablePorts ==
  HeldPorts \cup {q \in Ports \ HeldPorts : \A r \in Ports \ HeldPorts : q <= r}

\* TempMongo::new() (b is TempMongoBuilder::new()) or
\* TempMongoBuilder::spawn() on a builder b enters from_builder.  Instances
\* are numbered in the order their launches begin.
\* Up to the first await of from_builder nothing another thread does is
\* read, so lines 183-264 are one step: it ends with an error, or with the
\* server spawned and the client constructed.
Launch_spawn(i, b) ==
  /\ inst[i].pc = "idle"
  /\ \A j \in Inst : j < i => inst[j].pc # "idle"
  /\ \E mk, db, bind, sp, cl, k, wt, rm \in BOOLEAN, p \in AssignablePorts :
       /\ mk => \E d \in DirNames : ~fs[d].exists
       /\ sp => get_command(b) \in Runnable
       /\ Unread(~mk, {db}) /\ Unread(~mk \/ ~db, {bind})
       /\ Unread(~mk \/ ~db \/ ~bind, {p = 1, sp})
       /\ Unread(~mk \/ ~db \/ ~bind \/ ~sp, {cl})
       /\ Unread(~mk \/ ~db \/ ~bind \/ ~sp \/ cl, {k, wt})
       /\ Unread(~mk \/ (db /\ bind /\ sp /\ cl) \/ ~b.clean_on_drop, {rm})
       /\ LET w1 == from_builder_alloc(World(i), b, mk, FreshName, db, bind, p, rm)
          IN  IF w1.me.pc = "failed" THEN Finish(i, w1)
              ELSE Finish(i, from_builder_spawn(w1, sp, cl, k, wt, rm))

\* The spawned mongod finishes starting: it has opened its log file and
\* listens on its socket.
Mongod_start(i) ==
  /\ inst[i].pc = "spawned"
  /\ inst[i].proc = "running"
  /\ ~inst[i].started
  /\ inst' = [inst EXCEPT ![i].started = TRUE]
  /\ fs' = [fs EXCEPT ![inst[i].path].files = @ \cup {"mongod.log", "mongod.sock"}]
  /\ seeding' = seeding

Launch_probe(i) ==
  /\ inst[i].pc = "spawned"
  /\ \E ok, k, wt, rm \in BOOLEAN :
       /\ ok => inst[i].started
       /\ Unread(ok, {k, wt}) /\ Unread(ok \/ ~inst[i].clean_on_drop, {rm})
       /\ Finish(i, from_builder_probe(World(i), ok, k, wt, rm))

SetCleanOnDrop(i, c) ==
  /\ inst[i].pc = "live"
  /\ Finish(i, set_clean_on_drop(World(i), c))

KillAndClean(i) ==
  /\ inst[i].pc = "live"
  /\ \E k1, rm, k2, wt \in BOOLEAN :
       /\ Unread(~k1 /\ ~inst[i].clean_on_drop, {rm})
       /\ Finish(i, kill_and_clean(World(i), k1, rm, k2, wt))

KillNoClean(i) ==
  /\ inst[i].pc = "live"
  /\ \E k1, rm, k2, wt \in BOOLEAN :
       /\ Unread(TRUE, {rm})
       /\ Finish(i, kill_no_clean(World(i), k1, rm, k2, wt))

Drop(i) ==
  /\ inst[i].pc = "live"
  /\ \E rm, k, wt \in BOOLEAN :
       /\ Unread(~inst[i].clean_on_drop, {rm})
       /\ Finish(i, implicit_drop(World(i), rm, k, wt))

\* The caller of a live instance inserts a document into database n.
Insert(i, n) ==
  /\ inst[i].pc = "live"
  /\ \E ok \in BOOLEAN : Finish(i, insert_one(World(i), n, ok))

Next ==
  \/ \E i \in Inst, b \in Builders : Launch_spawn(i, b)
  \/ \E i \in Inst : Mongod_start(i)
  \/ \E i \in Inst : Launch_probe(i)
  \/ \E i \in Inst, c \in BOOLEAN : SetCleanOnDrop(i, c)
  \/ \E i \in Inst : KillAndClean(i)
  \/ \E i \in Inst : KillNoClean(i)
  \/ \E i \in Inst : Drop(i)

Spec == Init /\ [][Next]_vars

\* The lifecycle together with what callers write through the clients of
\* live instances.
NextData ==
  \/ Next
  \/ \E i \in Inst, n \in UserDbs : Insert(i, n)

SpecData == Init /\ [][NextData]_vars

\* A TempMongo::new() that went through in an empty system: the first
\* instance is live, its server started.
Launched ==
  LET b  == TempMongoBuilder_new
      w0 == [fs |-> [d \in DirNames |-> Absent], me |-> Idle]
      w1 == from_builder_alloc(w0, b, TRUE, 1, TRUE, TRUE, 1, TRUE)
      w2 == from_builder_spawn(w1, TRUE, TRUE, TRUE, TRUE, TRUE)
      w3 == [w2 EXCEPT !.me.started = TRUE,
                       !.fs[1].files = @ \cup {"mongod.log", "mongod.sock"}]
  IN  from_builder_probe(w3, TRUE, TRUE, TRUE, TRUE)

InitSeed ==
  /\ fs = Launched.fs
  /\ inst = [i \in Inst |-> IF i = 1 THEN Launched.me ELSE Idle]
  /\ seeding = NoSeeding

\* mongo.prepare_seed_document(db, coll, docs) on a live instance.
PrepareSeedDocument(i, db, coll, docs) ==
  /\ inst[i].pc = "live"
  /\ seeding.pc = "none"
  /\ seeding' = [seeding EXCEPT !.pc = "prepared", !.by = i,
                                !.given = <<db, coll, docs>>,
                                !.seeder = prepare_seed_document(db, coll, docs)]
  /\ UNCHANGED <<fs, inst>>

\* mongo.load_document(&seeder): seed_document on the instance's client,
\* up to the return of one insert_one.
LoadDocument_insert(i) ==
  /\ inst[i].pc = "live"
  /\ seeding.by = i
  /\ seeding.pc \in {"prepared", "loading"}
  /\ seeding.next <= Len(seeding.seeder.documents)
  /\ \E ok \in BOOLEAN :
       /\ seeding' = seed_document_insert(seeding, ok)
       /\ LET w == insert_one(World(i), seeding.seeder.database_name, ok)
          IN  fs' = w.fs /\ inst' = [inst EXCEPT ![i] = w.me]

\* seed_document has gone through the list and load_document returns Ok.
LoadDocument_return(i) ==
  /\ inst[i].pc = "live"
  /\ seeding.by = i
  /\ seeding.pc \in {"prepared", "loading"}
  /\ seeding.next > Len(seeding.seeder.documents)
  /\ seeding' = seed_document_return(seeding)
  /\ UNCHANGED <<fs, inst>>

NextSeed ==
  \/ \E i \in Inst, db \in SeedDbs, coll \in SeedColls, docs \in DocLists :
       PrepareSeedDocument(i, db, coll, docs)
  \/ \E i \in Inst : LoadDocument_insert(i)
  \/ \E i \in Inst : LoadDocument_return(i)

\* The seeding of a collection through a live instance, as in the test
\* seeding_document.
SpecSeed == InitSeed /\ [][NextSeed]_vars

(***************************************************************************)
(* Vocabulary of the properties.                                           *)
(***************************************************************************)

Has(i, e) == \E n \in DOMAIN inst[i].hist : inst[i].hist[n] = e

Count(i, es) == Cardinality({n \in DOMAIN inst[i].hist : inst[i].hist[n] \in es})

\* The place of the first of the events es in the calls made for i, 0 if none.
First(i, es) ==
  LET at == {n \in DOMAIN inst[i].hist : inst[i].hist[n] \in es}
  IN  IF at = {} THEN 0 ELSE CHOOSE n \in at : \A m \in at : n <= m

\* The process is neither running nor a zombie.
Ended(i) == inst[i].proc = "ended"

KillEvents == {"kill_ok", "kill_err", "drop_kill"}
RemoveEvents == {"rmdir_ok", "rmdir_err"}
ClientEndEvents == {"client_shutdown", "client_drop"}

\* The error kinds a returned Result carries.
Surfaced(r) == IF r.kind \in {"Ok", "none"} THEN {} ELSE {r.kind}

DisposedBy(i, op) == inst[i].pc = "disposed" /\ inst[i].op = op

\* The launch of i failed after its temporary directory was created.
FailedAfterTempDir(i) ==
  /\ inst[i].pc = "failed"
  /\ inst[i].launch.kind \in {"MakeDbDir", "Port", "SpawnServer", "Connect"}

(***************************************************************************)
(* C1.  After kill_and_clean returns Ok(()), the temporary directory of the *)
(* instance does not exist, whatever clean_on_drop is.                     *)
(***************************************************************************)
C1_CleanRemovesDir ==
  \A i \in Inst :
    DisposedBy(i, "kill_and_clean") /\ inst[i].dispose.kind = "Ok"
      => ~inst[i].left.exists

C1_Witness ==
  \E i \in Inst :
    /\ DisposedBy(i, "kill_and_clean") /\ inst[i].dispose.kind = "Ok"
    /\ ~inst[i].clean_on_drop

(***************************************************************************)
(* C2.  However a launched instance ends (kill_and_clean or kill_no_clean  *)
(* returning Ok or Err, or a drop), when the call or drop completes the    *)
(* server process has been sent the kill and waited for, and is neither    *)
(* running nor a zombie.                                                   *)
(***************************************************************************)
C2_ProcessAlwaysStopped ==
  \A i \in Inst :
    inst[i].pc = "disposed"
      => /\ Ended(i)
         /\ Has(i, "drop_kill") /\ Has(i, "drop_wait")
         /\ First(i, KillEvents) < First(i, {"drop_wait"})

C2_Witness ==
  \E i, j \in Inst :
    /\ DisposedBy(i, "kill_and_clean") /\ inst[i].dispose.kind = "KillServer"
    /\ DisposedBy(j, "drop")

(***************************************************************************)
(* C3.  As claimed: whenever a launch returns an error after the temporary *)
(* directory was created, the directory no longer exists, for every        *)
(* builder configuration.  The code leaves the directory when the builder  *)
(* has clean_on_drop(false), and when the removal fails.                   *)
(***************************************************************************)
C3_FailedLaunchLeavesNoDir ==
  \A i \in Inst : FailedAfterTempDir(i) => ~inst[i].left.exists

\* C3 as amended: the directory is disposed of by Drop for TempDir according
\* to the builder's clean_on_drop.  With clean_on_drop one removal is
\* attempted, after the server (if spawned) was waited for, and the
\* directory is gone unless that removal failed; with clean_on_drop(false)
\* no removal is attempted and the directory is left.
C3_FailedLaunchDisposesDir ==
  \A i \in Inst :
    FailedAfterTempDir(i)
      => IF inst[i].clean_on_drop
         THEN /\ Count(i, RemoveEvents) = 1
              /\ inst[i].left.exists = Has(i, "rmdir_err")
              /\ First(i, {"drop_wait"}) < First(i, RemoveEvents)
         ELSE /\ Count(i, RemoveEvents) = 0
              /\ inst[i].left.exists

C3_Witness ==
  \E i, j \in Inst :
    /\ FailedAfterTempDir(i) /\ inst[i].launch.kind = "SpawnServer"
    /\ inst[i].launch.arg = <<"no-such-mongod">>
    /\ inst[i].clean_on_drop /\ ~inst[i].left.exists
    /\ FailedAfterTempDir(j) /\ inst[j].launch.kind = "Connect"
    /\ ~inst[j].clean_on_drop /\ inst[j].left.exists

(***************************************************************************)
(* C4.  When a launch returns an error after the server was spawned        *)
(* (Connect, from client construction or from the probe), the process has  *)
(* been sent the kill and waited for before the error is returned.         *)
(***************************************************************************)
C4_FailedLaunchStopsProcess ==
  \A i \in Inst :
    inst[i].pc = "failed" /\ Has(i, "spawn")
      => /\ inst[i].launch.kind = "Connect"
         /\ Ended(i)
         /\ Has(i, "drop_kill") /\ Has(i, "drop_wait")

C4_Witness ==
  \E i, j \in Inst :
    /\ inst[i].pc = "failed" /\ Has(i, "probe_err")
    /\ inst[j].pc = "failed" /\ Has(j, "client_err")

(***************************************************************************)
(* C5.  A launch returns Ok only after the readiness probe                 *)
(* (list_databases) has succeeded on the spawned server; a spawn or a      *)
(* constructed client alone never yields Ok.                               *)
(***************************************************************************)
C5_ReadinessPrecedesReturn ==
  \A i \in Inst :
    inst[i].launch.kind = "Ok"
      => /\ Has(i, "probe_ok")
         /\ 0 < First(i, {"spawn"})
         /\ First(i, {"spawn"}) < First(i, {"client_new"})
         /\ First(i, {"client_new"}) < First(i, {"probe_ok"})

C5_Witness ==
  \E i \in Inst : inst[i].pc = "live" /\ inst[i].launch.kind = "Ok"

(***************************************************************************)
(* C6.  On every teardown path (kill_and_clean, kill_no_clean, drop of the *)
(* TempMongo, rollback of a failed launch) the end of the client precedes  *)
(* the first kill of the process, which precedes the removal of the        *)
(* temporary directory.  Dropping a TempMongo drops tempdir first.         *)
(***************************************************************************)
C6_TeardownOrder ==
  \A i \in Inst :
    inst[i].pc \in {"disposed", "failed"}
      => LET c == First(i, ClientEndEvents)
             k == First(i, KillEvents)
             r == First(i, RemoveEvents)
         IN  /\ (c > 0 /\ k > 0) => c < k
             /\ (k > 0 /\ r > 0) => k < r

(***************************************************************************)
(* C7.  After kill_no_clean returns, with Ok or with an error, the         *)
(* temporary directory exists and holds the db directory and mongod.log,   *)
(* whatever clean_on_drop is.                                              *)
(***************************************************************************)
C7_KeepStatePreservesDir ==
  \A i \in Inst :
    DisposedBy(i, "kill_no_clean")
      => /\ inst[i].left.exists
         /\ {"db", "mongod.log"} \subseteq inst[i].left.files
         /\ Count(i, RemoveEvents) = 0

C7_Witness ==
  \E i, j \in Inst :
    /\ DisposedBy(i, "kill_no_clean") /\ inst[i].dispose.kind = "KillServer"
    /\ inst[i].clean_on_drop
    /\ DisposedBy(j, "kill_no_clean") /\ inst[j].dispose.kind = "Ok"
    /\ ~inst[j].clean_on_drop

(***************************************************************************)
(* C8.  kill_and_clean ignores clean_on_drop: two instances that differ in *)
(* clean_on_drop and meet the same outcome of server.kill(), with no       *)
(* removal failing, get the same result and the same state of the          *)
(* directory.  When server.kill() fails, the code returns early and Drop   *)
(* for TempDir decides by clean_on_drop.                                   *)
(***************************************************************************)
C8_CleanOnDropIgnored ==
  \A i, j \in Inst :
    /\ DisposedBy(i, "kill_and_clean") /\ DisposedBy(j, "kill_and_clean")
    /\ Has(i, "kill_err") = Has(j, "kill_err")
    /\ ~Has(i, "rmdir_err") /\ ~Has(j, "rmdir_err")
    => /\ inst[i].dispose.kind = inst[j].dispose.kind
       /\ inst[i].left.exists = inst[j].left.exists

(***************************************************************************)
(* C9.  As claimed: kill_and_clean returns KillServer if the kill fails,   *)
(* else CleanDir with the path if the removal fails, else Ok(()); and when *)
(* both the kill and the removal fail, both are surfaced.  The code        *)
(* returns one error: after a failed kill the removal runs in Drop for     *)
(* TempDir and its failure is discarded.                                   *)
(***************************************************************************)
C9_BothFailuresSurfaced ==
  \A i \in Inst :
    DisposedBy(i, "kill_and_clean") /\ Has(i, "kill_err") /\ Has(i, "rmdir_err")
      => {"KillServer", "CleanDir"} \subseteq Surfaced(inst[i].dispose)

\* C9 as amended: the first error is returned and it is the only one
\* surfaced; a removal that fails after a failed kill is swallowed.
C9_FirstErrorReturned ==
  \A i \in Inst :
    DisposedBy(i, "kill_and_clean")
      => /\ Has(i, "kill_err") => inst[i].dispose = Err("KillServer", <<>>)
         /\ Has(i, "kill_ok") /\ Has(i, "rmdir_err")
              => inst[i].dispose = Err("CleanDir", <<inst[i].path>>)
         /\ Has(i, "kill_ok") /\ Has(i, "rmdir_ok") => inst[i].dispose = OkResult
         /\ Cardinality(Surfaced(inst[i].dispose)) <= 1

C9_Witness ==
  \E i, j \in Inst :
    /\ DisposedBy(i, "kill_and_clean")
    /\ Has(i, "kill_err") /\ Has(i, "rmdir_err")
    /\ DisposedBy(j, "kill_and_clean") /\ inst[j].dispose.kind = "CleanDir"

(***************************************************************************)
(* C10.  As claimed: when a live TempMongo is dropped, the process is      *)
(* terminated and afterwards the directory does not exist if the mode is   *)
(* clean and exists if the mode is leave, the mode being the builder's     *)
(* clean_on_drop unless set_clean_on_drop changed it.  The removal in Drop *)
(* can fail, and the failure is discarded.                                 *)
(***************************************************************************)
C10_DropFollowsMode ==
  \A i \in Inst :
    /\ inst[i].pc \in {"live", "disposed"} => inst[i].clean_on_drop = inst[i].mode
    /\ DisposedBy(i, "drop")
         => /\ Ended(i)
            /\ inst[i].left.exists = ~inst[i].clean_on_drop

\* C10 as amended: in mode clean one removal is attempted and the directory
\* is gone unless that removal failed; in mode leave none is attempted and
\* the directory exists.
C10_DropDisposesByMode ==
  \A i \in Inst :
    /\ inst[i].pc \in {"live", "disposed"} => inst[i].clean_on_drop = inst[i].mode
    /\ DisposedBy(i, "drop")
         => /\ Ended(i)
            /\ Has(i, "drop_kill") /\ Has(i, "drop_wait")
            /\ IF inst[i].clean_on_drop
               THEN /\ Count(i, RemoveEvents) = 1
                    /\ inst[i].left.exists = Has(i, "rmdir_err")
               ELSE /\ Count(i, RemoveEvents) = 0
                    /\ inst[i].left.exists

C10_Witness ==
  \E i, j \in Inst :
    /\ DisposedBy(i, "drop") /\ inst[i].clean_on_drop /\ ~inst[i].left.exists
    /\ DisposedBy(j, "drop") /\ ~inst[j].clean_on_drop /\ inst[j].left.exists

(***************************************************************************)
(* C11.  Implicit disposal (the drop of a live TempMongo, the rollback of  *)
(* a failed launch) surfaces no error and does not panic: a failing kill,  *)
(* wait or removal is swallowed and the drop runs to its end.  A drop      *)
(* returns nothing and every field is dropped; a failed launch returns the *)
(* error of the step that failed, and every local it had made is dropped.  *)
(***************************************************************************)
C11_ImplicitDisposalSilent ==
  \A i \in Inst :
    /\ DisposedBy(i, "drop")
         => /\ inst[i].dispose = NoResult
            /\ inst[i].tempdir = "dropped" /\ inst[i].client = "dropped"
            /\ Ended(i) /\ Has(i, "drop_kill") /\ Has(i, "drop_wait")
            /\ Has(i, "rmdir_err") => First(i, {"rmdir_err"}) < First(i, {"drop_wait"})
    /\ FailedAfterTempDir(i)
         => /\ inst[i].tempdir = "dropped"
            /\ inst[i].client \in {"none", "dropped"}
            /\ Has(i, "spawn") => Ended(i) /\ Has(i, "drop_wait")
            /\ inst[i].clean_on_drop => Count(i, RemoveEvents) = 1
            /\ Surfaced(inst[i].launch) \cap {"KillServer", "CleanDir"} = {}

C11_Witness ==
  \E i, j \in Inst :
    /\ DisposedBy(i, "drop") /\ Has(i, "rmdir_err")
    /\ FailedAfterTempDir(j) /\ Has(j, "drop_wait") /\ Has(j, "rmdir_err")

BothLive(i, j) == i # j /\ inst[i].pc = "live" /\ inst[j].pc = "live"

(***************************************************************************)
(* C13.  As claimed: any two instances that are live at the same time have *)
(* distinct temporary directories, distinct socket paths and distinct      *)
(* ports.  PortGenerator closes its listener before it returns and nothing *)
(* holds the port afterwards, so two live instances can be given the same  *)
(* port.                                                                   *)
(***************************************************************************)
C13_DistinctDirsAndPorts ==
  \A i, j \in Inst :
    BothLive(i, j)
      => /\ inst[i].path # inst[j].path
         /\ socket_path(inst[i]) # socket_path(inst[j])
         /\ inst[i].port # inst[j].port

\* C13 as amended: the temporary directories, and with them the socket
\* paths, of any two instances that hold one at the same time are distinct
\* and both on disk; each instance was given a port.
C13_DistinctDirs ==
  \A i, j \in Inst :
    /\ i # j
    /\ inst[i].tempdir = "owned" /\ inst[j].tempdir = "owned"
    => /\ inst[i].path # inst[j].path
       /\ socket_path(inst[i]) # socket_path(inst[j])
       /\ fs[inst[i].path].exists /\ fs[inst[j].path].exists
       /\ inst[i].port \in Ports /\ inst[j].port \in Ports

C13_Witness ==
  \E i, j \in Inst :
    /\ BothLive(i, j)
    /\ inst[i].path # inst[j].path
    /\ inst[i].port = inst[j].port

(***************************************************************************)
(* C14.  An instance observes no data of another instance: the databases   *)
(* its server lists are databases written through its own client.  In      *)
(* particular, after A had a document inserted into database test and was  *)
(* disposed of with kill_and_clean, an instance B launched afterwards,     *)
(* even under the directory name A had, does not list test.                *)
(***************************************************************************)
C14_NoForeignData ==
  \A i \in Inst :
    inst[i].tempdir = "owned"
      => list_database_names(World(i)) \subseteq
           (IF Has(i, "insert") THEN UserDbs ELSE {})

C14_Witness ==
  \E a, b \in Inst :
    /\ a < b
    /\ DisposedBy(a, "kill_and_clean") /\ Has(a, "insert")
    /\ inst[a].dispose = OkResult
    /\ inst[b].pc = "live" /\ inst[b].path = inst[a].path
    /\ list_database_names(World(b)) = {}

(***************************************************************************)
(* C15.  As claimed: where there are local-domain sockets (unix, the build *)
(* modelled) a launch allocates no port and never fails with Port.  The    *)
(* code allocates a port on every platform (temp_mongo.rs:205-212 stand    *)
(* outside the cfg blocks) and returns Port when the bind fails.           *)
(***************************************************************************)
C15_NoPortOnUnix ==
  \A i \in Inst :
    /\ ~Has(i, "port") /\ ~Has(i, "port_err")
    /\ inst[i].launch.kind # "Port"

\* C15 as amended: the endpoint is the socket path in the temporary
\* directory (the server makes mongod.sock there and a Connect error
\* carries that path), and all the same every launch that has made its db
\* directory allocates a port, once: it fails with Port exactly when the
\* bind failed, and otherwise the server is spawned with the port.
C15_PortAllocatedAlways ==
  \A i \in Inst :
    /\ Has(i, "mkdb") => Count(i, {"port", "port_err"}) = 1
    /\ (inst[i].launch.kind = "Port") = Has(i, "port_err")
    /\ Has(i, "spawn") \/ Has(i, "spawn_err") => Has(i, "port")
    /\ inst[i].pc \in {"spawned", "live"} => inst[i].port \in Ports
    /\ inst[i].launch.kind = "Connect" => inst[i].launch.arg = socket_path(inst[i])
    /\ inst[i].pc = "live" => "mongod.sock" \in fs[inst[i].path].files

C15_Witness ==
  \E i, j \in Inst :
    /\ inst[i].pc = "failed" /\ inst[i].launch = Err("Port", <<>>)
    /\ inst[j].pc = "live" /\ inst[j].port \in Ports
    /\ "mongod.sock" \in fs[inst[j].path].files

\* The steps of a launch in the order of from_builder, the event each
\* leaves in hist when it fails, and the error kind of that failure.
LaunchSteps == <<"mktemp", "mkdb", "port", "spawn", "client_new", "probe_ok">>
StepFailures ==
  <<"mktemp_err", "mkdb_err", "port_err", "spawn_err", "client_err", "probe_err">>
StepKinds ==
  <<"MakeTempDir", "MakeDbDir", "Port", "SpawnServer", "Connect", "Connect">>
RollbackEvents == {"client_drop", "drop_kill", "drop_wait", "rmdir_ok", "rmdir_err"}

\* The failed launch of i went through the steps before step n, failed in
\* step n, ran nothing but its rollback after it, and returned the error
\* of step n with its payload.
FailedInStep(i, n) ==
  LET h == inst[i].hist
      r == inst[i].launch
  IN  /\ Len(h) >= n
      /\ \A m \in 1..(n - 1) : h[m] = LaunchSteps[m]
      /\ h[n] = StepFailures[n]
      /\ \A m \in (n + 1)..Len(h) : h[m] \in RollbackEvents
      /\ r.kind = StepKinds[n]
      /\ r.arg = CASE n = 2 -> <<inst[i].path, "db">>
                   [] n = 4 -> <<r.arg[1]>>
                   [] n \in {5, 6} -> <<inst[i].path, "mongod.sock">>
                   [] OTHER -> <<>>
      /\ n = 4 => r.arg[1] \in {"mongod"} \cup Overrides
      /\ n <= 4 => inst[i].proc = "none" /\ ~Has(i, "spawn")

(***************************************************************************)
(* C16.  A failed launch returns the error of the first step that failed,  *)
(* the steps being, in order: temporary directory (MakeTempDir), db        *)
(* directory (MakeDbDir with <tempdir>/db), port (Port), spawn             *)
(* (SpawnServer with the command: the builder's override if set, else      *)
(* "mongod"), client (Connect with the address), probe (Connect with the   *)
(* address).  After the failing step only the rollback runs: no later      *)
(* step, and no spawn after a MakeDbDir or Port failure.                   *)
(***************************************************************************)
C16_FirstFailureReported ==
  [][ \A i \in Inst :
        inst[i].pc # "failed" /\ inst'[i].pc = "failed"
          => /\ (\E n \in 1..6 : FailedInStep(i, n))'
             /\ \A b \in Builders :
                  /\ inst'[i].launch.kind = "SpawnServer"
                  /\ Launch_spawn(i, b)
                  => inst'[i].launch.arg =
                       <<IF b.command = NoCommand THEN "mongod" ELSE b.command>>
    ]_vars

C16_Witness ==
  \E i, j \in Inst :
    /\ inst[i].pc = "failed" /\ FailedInStep(i, 4)
    /\ inst[i].launch.arg = <<"no-such-mongod">>
    /\ inst[j].pc = "failed" /\ FailedInStep(j, 2)
    /\ inst[j].launch.arg = <<inst[j].path, "db">>

\* The events the steps of a launch leave in hist.
StepEvents ==
  {LaunchSteps[n] : n \in 1..6} \cup {StepFailures[n] : n \in 1..6}

(***************************************************************************)
(* C17.  A launch retries nothing: port allocation, spawn, client          *)
(* construction and probe are each attempted at most once; a failure of    *)
(* one of them is the last step of the launch and its error is the result; *)
(* a launch that returned Ok met no failure.                               *)
(***************************************************************************)
C17_NoRetries ==
  \A i \in Inst :
    /\ \A n \in 3..6 : Count(i, {LaunchSteps[n], StepFailures[n]}) <= 1
    /\ \A n \in 3..6 :
         Has(i, StepFailures[n])
           => /\ inst[i].pc = "failed"
              /\ inst[i].launch.kind = StepKinds[n]
              /\ \A m \in DOMAIN inst[i].hist :
                   m > First(i, {StepFailures[n]}) => inst[i].hist[m] \notin StepEvents
    /\ inst[i].launch.kind = "Ok" => Count(i, {StepFailures[n] : n \in 1..6}) = 0

C17_Witness ==
  \E i, j \in Inst :
    /\ inst[i].pc = "failed" /\ Has(i, "probe_err") /\ Count(i, {"probe_err"}) = 1
    /\ inst[j].pc = "failed" /\ Has(j, "spawn_err")
    /\ inst[j].launch.arg = <<"mongod">>

(***************************************************************************)
(* C18.  kill_no_clean attempts no removal of the temporary directory and  *)
(* returns Ok(()) or KillServer, never CleanDir: the directory is          *)
(* persisted before the kill, the result is Ok exactly when the kill       *)
(* succeeded, and neither the result nor the directory depends on          *)
(* clean_on_drop.                                                          *)
(***************************************************************************)
C18_KeepNeverCleans ==
  \A i \in Inst :
    DisposedBy(i, "kill_no_clean")
      => /\ Count(i, RemoveEvents) = 0
         /\ inst[i].dispose \in {OkResult, Err("KillServer", <<>>)}
         /\ (inst[i].dispose = OkResult) = Has(i, "kill_ok")
         /\ inst[i].tempdir = "taken"
         /\ 0 < First(i, {"persist"})
         /\ First(i, {"persist"}) < First(i, KillEvents)
         /\ \A j \in Inst :
              DisposedBy(j, "kill_no_clean") /\ Has(j, "kill_ok") = Has(i, "kill_ok")
                => /\ inst[j].dispose = inst[i].dispose
                   /\ inst[j].left.exists = inst[i].left.exists

C18_Witness ==
  \E i, j \in Inst :
    /\ DisposedBy(i, "kill_no_clean") /\ DisposedBy(j, "kill_no_clean")
    /\ inst[i].clean_on_drop /\ ~inst[j].clean_on_drop
    /\ inst[i].dispose.kind = "KillServer" /\ inst[j].dispose.kind = "KillServer"

(***************************************************************************)
(* C19.  The lifecycle is Live -> Disposed, and Disposed is terminal.  An  *)
(* instance is disposed of once, from Live, by one of kill_and_clean,      *)
(* kill_no_clean and drop, which leaves it without directory handle,       *)
(* client and running process; once disposed of, no operation changes it   *)
(* any more (no set_clean_on_drop, no use of the client, no second         *)
(* disposal).                                                              *)
(***************************************************************************)
C19_DisposedIsTerminal ==
  [][ \A i \in Inst :
        /\ inst[i].op # "none" => inst'[i] = inst[i]
        /\ inst'[i].op # inst[i].op
             => /\ inst[i].pc = "live"
                /\ inst'[i].op \in {"kill_and_clean", "kill_no_clean", "drop"}
                /\ inst'[i].tempdir \in {"taken", "dropped"}
                /\ inst'[i].client = "dropped"
                /\ inst'[i].proc = "ended"
        /\ (inst'[i].pc = "disposed") = (inst'[i].op # "none")
    ]_vars

C19_Witness ==
  \E i, j \in Inst :
    /\ DisposedBy(i, "kill_and_clean") /\ Has(i, "insert")
    /\ DisposedBy(j, "kill_no_clean") /\ Has(j, "insert")

\* The server of i was spawned and the instance has come to its end.
SpawnedAndEnded(i) ==
  \/ inst[i].pc = "disposed"
  \/ inst[i].pc = "failed" /\ Has(i, "spawn")

(***************************************************************************)
(* C21.  As claimed: on every path from the spawn to the end of the        *)
(* instance the child is signaled exactly once and waited for exactly      *)
(* once.  kill_and_clean and kill_no_clean signal it themselves, and Drop  *)
(* for KillOnDrop signals it again when self goes out of scope.            *)
(***************************************************************************)
C21_SignaledOnceWaitedOnce ==
  \A i \in Inst :
    SpawnedAndEnded(i)
      => Count(i, KillEvents) = 1 /\ Count(i, {"drop_wait"}) = 1

\* C21 as amended: the child is waited for exactly once, by Drop for
\* KillOnDrop, after every signal.  It is signaled once on a drop and on
\* the rollback of a failed launch, and twice by kill_and_clean and
\* kill_no_clean: by the call, then by Drop.
C21_WaitedOnce ==
  \A i \in Inst :
    SpawnedAndEnded(i)
      => /\ Count(i, {"drop_wait"}) = 1
         /\ Count(i, {"drop_kill"}) = 1
         /\ Count(i, {"kill_ok", "kill_err"}) =
              (IF inst[i].op \in {"kill_and_clean", "kill_no_clean"} THEN 1 ELSE 0)
         /\ \A n \in DOMAIN inst[i].hist :
              inst[i].hist[n] \in KillEvents => n < First(i, {"drop_wait"})

C21_Witness ==
  \E i, j \in Inst :
    /\ DisposedBy(i, "kill_and_clean") /\ Count(i, KillEvents) = 2
    /\ inst[j].pc = "failed" /\ Has(j, "spawn") /\ Count(j, KillEvents) = 1

(***************************************************************************)
(* C22.  In kill_and_clean, when the removal of the temporary directory    *)
(* begins (tempdir.close) the server process has exited and has been       *)
(* waited for.  The code signals the process, sleeps 50 ms and removes the *)
(* directory; the wait comes after, in Drop for KillOnDrop.                *)
(***************************************************************************)
C22_WaitedBeforeClose ==
  \A i \in Inst :
    DisposedBy(i, "kill_and_clean") /\ Has(i, "kill_ok")
      => /\ 0 < First(i, {"drop_wait"})
         /\ First(i, {"drop_wait"}) < First(i, RemoveEvents)

(***************************************************************************)
(* C23.  The temporary directory of an instance is disposed exactly once   *)
(* over every path: once the instance has ended, its directory was taken   *)
(* by close or into_path, or dropped with the wrapper; it was removed at   *)
(* most once, never both persisted and removed, and Drop for TempDir did   *)
(* not run for a directory that close or into_path had taken.              *)
(***************************************************************************)
DirEnded(i) == inst[i].pc \in {"failed", "disposed"} /\ Has(i, "mktemp")

C23_DirectoryDisposedOnce ==
  \A i \in Inst :
    /\ Count(i, RemoveEvents) + Count(i, {"persist"}) <= 1
    /\ DirEnded(i)
         => /\ inst[i].tempdir \in {"taken", "dropped"}
            /\ inst[i].tempdir = "taken"
                 => Count(i, RemoveEvents) + Count(i, {"persist"}) = 1
            /\ inst[i].tempdir = "dropped"
                 => /\ ~Has(i, "persist")
                    /\ Count(i, RemoveEvents)
                         = (IF inst[i].clean_on_drop THEN 1 ELSE 0)
            /\ Has(i, "persist") => inst[i].op = "kill_no_clean"

C23_Witness ==
  \E i, j \in Inst :
    /\ DisposedBy(i, "kill_and_clean") /\ inst[i].clean_on_drop
    /\ inst[i].tempdir = "taken" /\ Has(i, "rmdir_ok")
    /\ DisposedBy(j, "kill_no_clean") /\ inst[j].clean_on_drop
    /\ Has(j, "kill_err") /\ Has(j, "persist")

(***************************************************************************)
(* C24.  In the rollback of a launch that fails after the server was       *)
(* spawned, the locals are dropped in reverse order of creation: the       *)
(* client (if constructed), then the server, which is killed and waited    *)
(* for, and only then the temporary directory; any removal of the          *)
(* directory comes after the wait.                                         *)
(***************************************************************************)
C24_RollbackStopsServerFirst ==
  \A i \in Inst :
    inst[i].pc = "failed" /\ Has(i, "spawn")
      => /\ First(i, {"spawn"}) < First(i, {"drop_kill"})
         /\ First(i, {"drop_kill"}) < First(i, {"drop_wait"})
         /\ Has(i, "client_drop")
              => First(i, {"client_drop"}) < First(i, {"drop_kill"})
         /\ \A n \in DOMAIN inst[i].hist :
              inst[i].hist[n] \in RemoveEvents
                => First(i, {"drop_wait"}) < n
         /\ inst[i].tempdir = "dropped" /\ Ended(i)

C24_Witness ==
  \E i, j \in Inst :
    /\ inst[i].pc = "failed" /\ Has(i, "probe_err")
    /\ Has(i, "drop_wait") /\ Has(i, "rmdir_ok")
    /\ inst[j].pc = "failed" /\ Has(j, "client_err")
    /\ Has(j, "drop_wait") /\ Has(j, "rmdir_err")

(***************************************************************************)
(* C25.  Instances are independent.  A step of one instance (a launch or   *)
(* its rollback, set_clean_on_drop, kill_and_clean, kill_no_clean, drop)   *)
(* changes no other instance and no directory but its own: every other     *)
(* live instance keeps its process running, its directory present and its  *)
(* clean-on-drop mode.                                                     *)
(***************************************************************************)
C25_InstancesIndependent ==
  [][\A i \in Inst :
       inst'[i] # inst[i]
         => /\ \A d \in DirNames :
                 fs'[d] # fs[d] => d \in {inst[i].path, inst'[i].path}
            /\ \A j \in Inst \ {i} :
                 /\ inst'[j].proc = inst[j].proc
                 /\ inst'[j].hist = inst[j].hist
                 /\ inst[j].pc = "live"
                      => /\ inst'[j].pc = "live"
                         /\ inst'[j].proc = "running"
                         /\ fs'[inst[j].path].exists
                         /\ inst'[j].clean_on_drop = inst[j].clean_on_drop
                         /\ inst'[j].mode = inst[j].mode]_vars

C25_Witness ==
  \E i, j \in Inst :
    /\ DisposedBy(i, "kill_and_clean") /\ Has(i, "rmdir_ok")
    /\ ~fs[inst[i].path].exists
    /\ inst[j].pc = "live" /\ inst[j].proc = "running"
    /\ inst[j].path # inst[i].path /\ fs[inst[j].path].exists

(***************************************************************************)
(* C26.  The builder is a snapshot for the launch and set_clean_on_drop    *)
(* changes the mode only.  A step that takes a live instance to a live     *)
(* instance changes its clean_on_drop and mode and nothing else of it      *)
(* (process, client, path, port, the calls made), no directory and no      *)
(* other instance; the builder a launch has borrowed is the same from the  *)
(* beginning of the launch to its return.                                  *)
(***************************************************************************)
C26_SetCleanOnDropFrame ==
  [][\A i \in Inst :
       /\ inst[i].pc = "live" /\ inst'[i].pc = "live" /\ inst'[i] # inst[i]
            => /\ inst'[i].mode = inst'[i].clean_on_drop
               /\ inst'[i] = [inst[i] EXCEPT
                                !.clean_on_drop = inst'[i].clean_on_drop,
                                !.mode = inst'[i].mode]
               /\ fs' = fs
               /\ \A j \in Inst \ {i} : inst'[j] = inst[j]
       /\ inst'[i].cfg # inst[i].cfg
            => inst[i].pc = "idle" \/ inst'[i].pc \in {"live", "failed"}]_vars

C26_Witness ==
  \E i, j \in Inst :
    /\ inst[i].pc = "live" /\ ~inst[i].clean_on_drop /\ ~inst[i].mode
    /\ inst[i].proc = "running" /\ inst[i].client = "open"
    /\ inst[j].pc = "spawned" /\ inst[j].cfg = TempMongoBuilder_new
    /\ inst[j].clean_on_drop

(***************************************************************************)
(* C27.  PortGenerator::generate keeps no listener: the port it returned   *)
(* can be assigned again, also while an instance holds it.  Its selection  *)
(* is None exactly when the bind failed, and a launch that finds None      *)
(* returns the Port error: it spawns no server and goes on with no port,   *)
(* while every launch that got further holds the port that was assigned.   *)
(***************************************************************************)
C27_NoneIsPortError ==
  /\ \A ok \in BOOLEAN, p \in Ports :
       (PortGenerator_generate(PortGenerator_new, ok, p) = NoPort) = ~ok
  /\ \A i \in Inst :
       /\ Has(i, "port_err")
            => /\ inst[i].pc = "failed" /\ inst[i].launch = Err("Port", <<>>)
               /\ ~Has(i, "port") /\ ~Has(i, "spawn")
               /\ inst[i].port = NoPort /\ inst[i].proc = "none"
       /\ inst[i].pc \in {"spawned", "live"}
            => Has(i, "port") /\ inst[i].port \in Ports
       /\ Has(i, "spawn") => Has(i, "port")

C27_Witness ==
  \E i, j \in Inst :
    /\ i # j
    /\ inst[i].pc = "live" /\ inst[j].pc \in {"spawned", "live"}
    /\ inst[i].port \in Ports /\ inst[j].port = inst[i].port

(***************************************************************************)
(* C28.  Seeding preserves the documents and their order.  The seeder      *)
(* holds the names and the list it was prepared with; load_document        *)
(* inserts the documents one by one in the order of the list into that     *)
(* collection only, so what the collection holds, without the generated    *)
(* _id fields, is at every moment the part of the list gone through; when  *)
(* Ok is returned it is the whole list, and when an insert fails the       *)
(* error is returned with exactly the documents before it inserted.        *)
(***************************************************************************)
Prefix(q, n) == [k \in 1..n |-> q[k]]

C28_SeedingPreservesOrder ==
  seeding.pc # "none"
    => LET db   == seeding.given[1]
           coll == seeding.given[2]
           docs == seeding.given[3]
           held == Collection_find(seeding.store, <<db, coll>>)
       IN  /\ seeding.seeder.database_name = db
           /\ seeding.seeder.collection_name = coll
           /\ seeding.seeder.documents = docs
           /\ seeding.next \in 1..(Len(docs) + 1)
           /\ remove_id(held) = Prefix(docs, seeding.next - 1)
           /\ \A m, n \in DOMAIN held : m # n => held[m].id # held[n].id
           /\ \A ns \in Namespaces \ {<<db, coll>>} : seeding.store[ns] = <<>>
           /\ seeding.pc = "returned"
                => \/ /\ seeding.result = OkResult
                      /\ remove_id(held) = docs
                   \/ /\ seeding.result = Err("mongodb", <<>>)
                      /\ seeding.failed_at = seeding.next
                      /\ seeding.failed_at \in 1..Len(docs)
                      /\ remove_id(held) = Prefix(docs, seeding.failed_at - 1)

C28_Witness ==
  /\ seeding.pc = "returned" /\ seeding.result = OkResult
  /\ seeding.given = <<"test_3", "trex", <<"Alice", "Bob">> >>
  /\ remove_id(Collection_find(seeding.store, <<"test_3", "trex">>))
       = <<"Alice", "Bob">>
  /\ DataFile("test_3") \in fs[inst[seeding.by].path].files

====
